---- MODULE Spec2Model ----
(***************************************************************************)
(* Model of theon's core: the Lattice operations and the Composite         *)
(* adapters of src/src/lib.rs and the SVD plane fit of src/src/array.rs.   *)
(*                                                                         *)
(* Every operation of the crate is a synchronous function, so one call is  *)
(* one action.  Init draws the operation and its arguments; the action of  *)
(* the operation runs it to its end, which is either a return (status      *)
(* "returned", value in ret) or a panic (status "panicked").               *)
(***************************************************************************)
EXTENDS Integers, Sequences, FiniteSets, TLC

VARIABLES
    op,       \* the operation called
    a,        \* Lattice: self
    b,        \* Lattice: other (partial_clamp: min)
    c,        \* Lattice: partial_clamp's max
    items,    \* FromItems: the source sequence; IntoItems: the tuple
    points,   \* svd_ev_plane: the input collection, as its three views
    status,   \* "ready" | "returned" | "panicked"
    ret,      \* the value returned
    aux       \* what the call did besides returning (reads, intermediates)

vars == <<op, a, b, c, items, points, status, ret, aux>>

(***************************************************************************)
(* Bounds.                                                                 *)
(***************************************************************************)
MaxVal == 2      \* finite scalars are 0 .. MaxVal
MaxItems == 5    \* longest source sequence handed to from_items
MaxPts == 3      \* most points handed to svd_ev_plane
MaxSig == 2      \* most singular values the backend returns
MaxCols == 2     \* most columns of the left factor the backend returns

(***************************************************************************)
(* Option<T>.                                                              *)
(***************************************************************************)
None == [some |-> FALSE]
Some(v) == [some |-> TRUE, val |-> v]

(***************************************************************************)
(* Scalars: a float-like Copy + PartialOrd type.  Num(v) is the finite     *)
(* value v; NegZero is -0.0, which compares equal to Num(0) but is another *)
(* value; NaN compares with nothing, itself included.                      *)
(***************************************************************************)
Num(v) == [k |-> "num", v |-> v]
NegZero == [k |-> "negzero", v |-> 0]
NaN == [k |-> "nan", v |-> 0]

IsNaN(x) == x.k = "nan"

ScalarSet == {NaN, NegZero} \cup {Num(v) : v \in 0..MaxVal}

\* PartialOrd::partial_cmp: "None" when the operands are unordered.
PartialCmp(x, y) ==
    IF IsNaN(x) \/ IsNaN(y) THEN "None"
    ELSE IF x.v < y.v THEN "Less"
    ELSE IF x.v > y.v THEN "Greater"
    ELSE "Equal"

\* PartialOrd::le and PartialOrd::ge, the operators <= and >=.
Le(x, y) == PartialCmp(x, y) \in {"Less", "Equal"}
Ge(x, y) == PartialCmp(x, y) \in {"Greater", "Equal"}

Comparable(x, y) == PartialCmp(x, y) # "None"

(***************************************************************************)
(* impl<T> Lattice for T                                                   *)
(***************************************************************************)
MeetSelfOnUnordered(self, other) ==
    IF PartialCmp(self, other) = "Greater" THEN other ELSE self

MeetAsJoin(self, other) == IF Ge(self, other) THEN self ELSE other

Meet(self, other) == IF Le(self, other) THEN self ELSE other

Join(self, other) == IF Ge(self, other) THEN self ELSE other

MeetJoin(self, other) == <<Meet(self, other), Join(self, other)>>

PartialMinStrict(self, other) ==
    LET o == PartialCmp(self, other) IN
    IF o = "Less" THEN Some(self)
    ELSE IF o = "None" THEN None
    ELSE Some(other)

PartialMin(self, other) ==
    LET o == PartialCmp(self, other) IN
    IF o = "Greater" THEN Some(other)
    ELSE IF o # "None" THEN Some(self)
    ELSE None

PartialMax(self, other) ==
    LET o == PartialCmp(self, other) IN
    IF o = "Less" THEN Some(other)
    ELSE IF o # "None" THEN Some(self)
    ELSE None

PartialOrderedPairUnswapped(self, other) ==
    LET o == PartialCmp(self, other) IN
    IF o = "Less" THEN Some(<<self, other>>)
    ELSE IF o # "None" THEN Some(<<self, other>>)
    ELSE None

PartialOrderedPair(self, other) ==
    LET o == PartialCmp(self, other) IN
    IF o = "Less" THEN Some(<<self, other>>)
    ELSE IF o # "None" THEN Some(<<other, self>>)
    ELSE None

\* partial_clamp is `unimplemented!()`: every call panics.
PartialClamp(self, min, max) == [status |-> "panicked", ret |-> None]

(***************************************************************************)
(* Composite adapters.  A tuple (T, T) or (T, T, T) is a record of its     *)
(* fields f0, f1, f2; an ArrayVec and any other item source is a sequence. *)
(***************************************************************************)
ItemSet == 1..2

Tuple2(x, y) == [f0 |-> x, f1 |-> y]
Tuple3(x, y, z) == [f0 |-> x, f1 |-> y, f2 |-> z]

Tuple2Set == {Tuple2(x, y) : x, y \in ItemSet}
Tuple3Set == {Tuple3(x, y, z) : x, y, z \in ItemSet}

RECURSIVE SeqsUpTo(_, _)
SeqsUpTo(S, n) ==
    IF n = 0 THEN {<<>>}
    ELSE LET shorter == SeqsUpTo(S, n - 1) IN
         shorter \cup {Append(s, x) : s \in {t \in shorter : Len(t) = n - 1}, x \in S}

SourceSet == SeqsUpTo(ItemSet, MaxItems)

IntoItems2Reversed(t) == <<t.f1, t.f0>>

\* impl IntoItems for (T, T)
IntoItems2(t) == <<t.f0, t.f1>>

\* impl IntoItems for (T, T, T)
IntoItems3(t) == <<t.f0, t.f1, t.f2>>

\* items.into_iter().take(n): the source, how many of its items were pulled,
\* and how many the adapter may still ask for.
Take(src, n) == [src |-> src, pos |-> 0, n |-> n]

\* Take::next: asks the source only while n > 0.
TakeNext(it) ==
    IF it.n = 0 THEN [item |-> None, it |-> it]
    ELSE IF it.pos < Len(it.src)
         THEN [item |-> Some(it.src[it.pos + 1]),
               it |-> [it EXCEPT !.n = @ - 1, !.pos = @ + 1]]
         ELSE [item |-> None, it |-> [it EXCEPT !.n = @ - 1]]

FromItems2Swapped(src) ==
    LET r1 == TakeNext(Take(src, 2))
        r2 == TakeNext(r1.it)
    IN  [ret |-> IF r1.item.some /\ r2.item.some
                 THEN Some(Tuple2(r2.item.val, r1.item.val))
                 ELSE None,
         pulled |-> r2.it.pos]

\* impl FromItems for (T, T): both next() calls are made before the match.
FromItems2(src) ==
    LET r1 == TakeNext(Take(src, 2))
        r2 == TakeNext(r1.it)
    IN  [ret |-> IF r1.item.some /\ r2.item.some
                 THEN Some(Tuple2(r1.item.val, r2.item.val))
                 ELSE None,
         pulled |-> r2.it.pos]

\* impl FromItems for (T, T, T)
FromItems3(src) ==
    LET r1 == TakeNext(Take(src, 3))
        r2 == TakeNext(r1.it)
        r3 == TakeNext(r2.it)
    IN  [ret |-> IF r1.item.some /\ r2.item.some /\ r3.item.some
                 THEN Some(Tuple3(r1.item.val, r2.item.val, r3.item.val))
                 ELSE None,
         pulled |-> r3.it.pos]

(***************************************************************************)
(* Plane fitting.  Reals are fixed-point: Num(v) as a coordinate is the    *)
(* real v / Den, and Den is a multiple of every collection size the bounds *)
(* allow, so that the arithmetic mean of the drawn points is exact.        *)
(***************************************************************************)
RECURSIVE Factorial(_)
Factorial(n) == IF n <= 1 THEN 1 ELSE n * Factorial(n - 1)

Den == 2 * Factorial(MaxPts)

\* Float arithmetic on scalars: a NaN operand gives NaN.
Add(x, y) == IF IsNaN(x) \/ IsNaN(y) THEN NaN ELSE Num(x.v + y.v)
Sub(x, y) == IF IsNaN(x) \/ IsNaN(y) THEN NaN ELSE Num(x.v - y.v)
DivInt(x, n) == IF IsNaN(x) THEN NaN ELSE Num(x.v \div n)

\* A point of the 3-dimensional space is <<x, y, z>>.
Point(x, y, z) == <<Num(x), Num(y), Num(z)>>

\* The triangle of tests::svd_ev_plane_e3.
PointSet ==
    { Point(Den, 0, 0), Point(Den \div 2, Den \div 2, 0), Point(0, Den, 0) }

PointsSet == SeqsUpTo(PointSet, MaxPts)

\* The input collection I: AsRef<[S]> + Clone + IntoIterator<Item = S>.  The
\* function reaches its points three ways, and the bounds on I do not tie
\* them together: `slice` is what as_ref() shows, `cloned` what a clone()
\* yields when iterated, `iter` what into_iter() yields.
Collection(sl, cl, it) == [slice |-> sl, cloned |-> cl, iter |-> it]

\* A Vec<S> (or any collection whose three views agree).
Vec(ps) == Collection(ps, ps, ps)

NoPoints == Vec(<<>>)

\* Views of collections whose as_ref, clone and into_iter need not agree.
ViewSet ==
    { <<Point(0, Den, 0)>>,
      <<Point(Den, 0, 0), Point(0, Den, 0)>>,
      <<Point(0, Den, 0), Point(Den, 0, 0)>> }

CollectionSet ==
    {Vec(ps) : ps \in PointsSet}
    \cup {Collection(sl, cl, it) : sl \in ViewSet, cl \in ViewSet, it \in ViewSet}

\* The dimension <S as FiniteDimensional>::N::USIZE, N = U3.
Dim == 3

RECURSIVE SumCoord(_, _, _)
SumCoord(ps, j, n) ==
    IF n = 0 THEN Num(0) ELSE Add(SumCoord(ps, j, n - 1), ps[n][j])

CentroidUndivided(ps) ==
    IF Len(ps) = 0 THEN None
    ELSE Some([j \in 1..Dim |-> SumCoord(ps, j, Len(ps))])

\* EuclideanSpace::centroid: the arithmetic mean, none for an empty collection.
Centroid(ps) ==
    IF Len(ps) = 0 THEN None
    ELSE Some([j \in 1..Dim |-> DivInt(SumCoord(ps, j, Len(ps)), Len(ps))])

\* point - centroid: the Vector of the space, a (T, T, T).
PointSub(p, q) == Tuple3(Sub(p[1], q[1]), Sub(p[2], q[2]), Sub(p[3], q[3]))

CenteredUncentered(ps, cen) ==
    [i \in 1..Len(ps) |-> Tuple3(ps[i][1], ps[i][2], ps[i][3])]

\* points.into_iter().map(|point| point - centroid)
Centered(ps, cen) == [i \in 1..Len(ps) |-> PointSub(ps[i], cen)]

\* .flat_map(|vector| vector.into_items()).collect()
RECURSIVE FlatMapItems(_)
FlatMapItems(vs) ==
    IF Len(vs) = 0 THEN <<>>
    ELSE IntoItems3(Head(vs)) \o FlatMapItems(Tail(vs))

\* convert::into_matrix(MatrixLayout::F((n, 3)), data): an error unless the
\* buffer holds n * 3 scalars.
IntoMatrix(n, data) ==
    IF Len(data) = n * Dim
    THEN Some([layout |-> <<n, Dim>>, data |-> data])
    ELSE None

\* What the factorization backend may answer: an error, or singular values
\* with or without a left factor.  A left factor is its columns.
SigmaValues == {Num(0), Num(1), NaN}
SigmaSet == SeqsUpTo(SigmaValues, MaxSig)

ColSet == { <<Num(0), Num(0), Num(0)>>, <<Num(0), Num(0), Num(1)>>,
            <<Num(1), NaN, Num(0)>> }
ShortColSet == { <<Num(0), Num(1)>> }
USet == SeqsUpTo(ColSet, MaxCols) \cup SeqsUpTo(ShortColSet, MaxCols)

SvdSet ==
    {[ok |-> FALSE]}
    \cup {[ok |-> TRUE, u |-> None, sigma |-> s] : s \in SigmaSet}
    \cup {[ok |-> TRUE, u |-> Some(u), sigma |-> s] : u \in USet, s \in SigmaSet}

\* Iterator::min_by over sigma.iter().enumerate() with the comparison
\* v1.partial_cmp(v2).unwrap(): a fold that keeps the earlier element unless
\* the later one is smaller, and panics at the first unordered comparison.
\* Indices are those of enumerate(), from 0.
RECURSIVE MinByFromLastTie(_, _, _)
MinByFromLastTie(sigma, best, j) ==
    IF j >= Len(sigma) THEN [panic |-> FALSE, i |-> Some(best)]
    ELSE LET o == PartialCmp(sigma[best + 1], sigma[j + 1]) IN
         IF o = "None" THEN [panic |-> TRUE, i |-> None]
         ELSE MinByFromLastTie(sigma, IF o = "Less" THEN best ELSE j, j + 1)

RECURSIVE MinByFrom(_, _, _)
MinByFrom(sigma, best, j) ==
    IF j >= Len(sigma) THEN [panic |-> FALSE, i |-> Some(best)]
    ELSE LET o == PartialCmp(sigma[best + 1], sigma[j + 1]) IN
         IF o = "None" THEN [panic |-> TRUE, i |-> None]
         ELSE MinByFrom(sigma, IF o = "Greater" THEN j ELSE best, j + 1)

MinBy(sigma) ==
    IF Len(sigma) = 0 THEN [panic |-> FALSE, i |-> None]
    ELSE MinByFrom(sigma, 0, 1)

\* Unit::try_from_inner: none for a zero-length or non-finite vector, else the
\* vector divided by its norm, kept as the vector and its squared norm.
Norm2(v) == v.f0.v * v.f0.v + v.f1.v * v.f1.v + v.f2.v * v.f2.v

TryFromInner(v) ==
    IF IsNaN(v.f0) \/ IsNaN(v.f1) \/ IsNaN(v.f2) THEN None
    ELSE IF Norm2(v) = 0 THEN None
    ELSE Some([inner |-> v, norm2 |-> Norm2(v)])

\* u.column(i)
Column(u, i) == u[i + 1]

\* Plane { origin: centroid, normal }
Plane(centroid, normal) == [origin |-> centroid, normal |-> normal]

\* What a call of svd_ev_plane went through, kept beside its result.
Trace(cen, m, svd, i, col) ==
    [centroid |-> cen, m |-> m, svd |-> svd, i |-> i, col |-> col]

NoTrace == Trace(None, None, None, None, None)

Outcome(st, r, t) == [status |-> st, ret |-> r, aux |-> t]

\* svd_ev_plane on the collection `coll`, with the answer `svd` of the
\* factorization backend.  n is read from as_ref(), the centroid from a
\* clone(), the rows of the matrix from into_iter().
SvdEvPlane(coll, svd) ==
    LET n == Len(coll.slice)
        cen == Centroid(coll.cloned)
    IN
    IF ~cen.some
    THEN Outcome("returned", None, Trace(cen, None, None, None, None))
    ELSE
    LET m == IntoMatrix(n, FlatMapItems(Centered(coll.iter, cen.val))) IN
    IF ~m.some
    THEN Outcome("returned", None, Trace(cen, m, None, None, None))
    ELSE IF ~svd.ok
    THEN Outcome("returned", None, Trace(cen, m, Some(svd), None, None))
    ELSE IF ~svd.u.some
    THEN Outcome("returned", None, Trace(cen, m, Some(svd), None, None))
    ELSE
    LET u == svd.u.val
        found == MinBy(svd.sigma)
    IN
    IF found.panic
    THEN Outcome("panicked", None, Trace(cen, m, Some(svd), None, None))
    ELSE IF ~found.i.some
    THEN Outcome("returned", None, Trace(cen, m, Some(svd), None, None))
    ELSE
    LET i == found.i.val IN
    IF ~(i < Len(u))
    THEN Outcome("returned", None, Trace(cen, m, Some(svd), Some(i), None))
    ELSE
    LET col == Column(u, i)
        normal == FromItems3(col).ret
        t == Trace(cen, m, Some(svd), Some(i), Some(col))
    IN
    IF ~normal.some THEN Outcome("returned", None, t)
    ELSE
    LET unit == TryFromInner(normal.val) IN
    IF ~unit.some THEN Outcome("returned", None, t)
    ELSE Outcome("returned", Some(Plane(cen.val, unit.val)), t)

\* Plane::from_points
FromPoints(coll, svd) == SvdEvPlane(coll, svd)

(***************************************************************************)
(* The calls.                                                              *)
(***************************************************************************)
LatticeOps == {"meet", "join", "meet_join", "partial_min", "partial_max",
               "partial_ordered_pair"}

InitLattice ==
    /\ \/ op \in LatticeOps /\ c = Num(0)
       \/ op = "partial_clamp" /\ c \in ScalarSet
    /\ a \in ScalarSet
    /\ b \in ScalarSet
    /\ items = <<>>
    /\ points = NoPoints
    /\ status = "ready"
    /\ ret = None
    /\ aux = NoTrace

InitComposite ==
    /\ \/ op \in {"from_items2", "from_items3"} /\ items \in SourceSet
       \/ op = "into_items2" /\ items \in Tuple2Set
       \/ op = "into_items3" /\ items \in Tuple3Set
    /\ a = Num(0)
    /\ b = Num(0)
    /\ c = Num(0)
    /\ points = NoPoints
    /\ status = "ready"
    /\ ret = None
    /\ aux = NoTrace

InitPlane ==
    /\ op \in {"svd_ev_plane", "from_points"}
    /\ points \in CollectionSet
    /\ a = Num(0)
    /\ b = Num(0)
    /\ c = Num(0)
    /\ items = <<>>
    /\ status = "ready"
    /\ ret = None
    /\ aux = NoTrace

Init == InitLattice \/ InitComposite \/ InitPlane

Return(v) ==
    /\ status' = "returned"
    /\ ret' = v
    /\ UNCHANGED <<op, a, b, c, items, points, aux>>

Finish(o) ==
    /\ status' = o.status
    /\ ret' = o.ret
    /\ aux' = o.aux
    /\ UNCHANGED <<op, a, b, c, items, points>>

CallMeet == status = "ready" /\ op = "meet" /\ Return(Meet(a, b))

CallJoin == status = "ready" /\ op = "join" /\ Return(Join(a, b))

CallMeetJoin == status = "ready" /\ op = "meet_join" /\ Return(MeetJoin(a, b))

CallPartialMin == status = "ready" /\ op = "partial_min" /\ Return(PartialMin(a, b))

CallPartialMax == status = "ready" /\ op = "partial_max" /\ Return(PartialMax(a, b))

CallPartialOrderedPair ==
    status = "ready" /\ op = "partial_ordered_pair" /\ Return(PartialOrderedPair(a, b))

CallPartialClamp ==
    /\ status = "ready" /\ op = "partial_clamp"
    /\ Finish(Outcome(PartialClamp(a, b, c).status, PartialClamp(a, b, c).ret, NoTrace))

\* from_items leaves in aux.i how many items it pulled from the source.
CallFromItems2 ==
    /\ status = "ready" /\ op = "from_items2"
    /\ Finish(Outcome("returned", FromItems2(items).ret,
                      [NoTrace EXCEPT !.i = Some(FromItems2(items).pulled)]))

CallFromItems3 ==
    /\ status = "ready" /\ op = "from_items3"
    /\ Finish(Outcome("returned", FromItems3(items).ret,
                      [NoTrace EXCEPT !.i = Some(FromItems3(items).pulled)]))

CallIntoItems2 == status = "ready" /\ op = "into_items2" /\ Return(IntoItems2(items))

CallIntoItems3 == status = "ready" /\ op = "into_items3" /\ Return(IntoItems3(items))

CallSvdEvPlane ==
    /\ status = "ready" /\ op = "svd_ev_plane"
    /\ \E svd \in SvdSet : Finish(SvdEvPlane(points, svd))

CallFromPoints ==
    /\ status = "ready" /\ op = "from_points"
    /\ \E svd \in SvdSet : Finish(FromPoints(points, svd))

NextLattice ==
    \/ CallMeet
    \/ CallJoin
    \/ CallMeetJoin
    \/ CallPartialMin
    \/ CallPartialMax
    \/ CallPartialOrderedPair
    \/ CallPartialClamp

NextComposite ==
    \/ CallFromItems2
    \/ CallFromItems3
    \/ CallIntoItems2
    \/ CallIntoItems3

NextPlane ==
    \/ CallSvdEvPlane
    \/ CallFromPoints

Next == NextLattice \/ NextComposite \/ NextPlane

SpecLattice == InitLattice /\ [][NextLattice]_vars
SpecComposite == InitComposite /\ [][NextComposite]_vars
SpecPlane == InitPlane /\ [][NextPlane]_vars
Spec == Init /\ [][Next]_vars

(***************************************************************************)
(* Lattice properties.                                                     *)
(***************************************************************************)
Returned(o) == op = o /\ status = "returned"

Ended(o) == op = o /\ status # "ready"

MinOf(x, y) == IF x.v <= y.v THEN x.v ELSE y.v
MaxOf(x, y) == IF x.v >= y.v THEN x.v ELSE y.v

\* C1: for mutually comparable a and b, meet(a, b) is an operand whose value
\* is min(a, b) and join(a, b) an operand whose value is max(a, b); when a
\* and b compare equal, both return the left-hand operand a itself.
C1_MeetJoinMinMax ==
    Comparable(a, b) =>
        /\ Returned("meet") =>
              /\ ret \in {a, b}
              /\ ret.v = MinOf(a, b)
              /\ (PartialCmp(a, b) = "Equal" => ret = a)
        /\ Returned("join") =>
              /\ ret \in {a, b}
              /\ ret.v = MaxOf(a, b)
              /\ (PartialCmp(a, b) = "Equal" => ret = a)

\* A tie between two different values (-0.0 and 0.0) resolved to the left one.
C1_Witness ==
    /\ Returned("meet") /\ a = NegZero /\ b = Num(0) /\ ret = NegZero

\* C2 as stated: on unordered operands meet and join return, and what they
\* return is self, the left-hand operand.
C2_UnorderedReturnsSelf ==
    (Ended("meet") \/ Ended("join")) /\ ~Comparable(a, b) =>
        status = "returned" /\ ret = a

\* C2 amended: on unordered operands meet and join return, and what they
\* return is other, the right-hand operand.
C2_UnorderedReturnsOther ==
    (Ended("meet") \/ Ended("join")) /\ ~Comparable(a, b) =>
        status = "returned" /\ ret = b

\* meet(NaN, 1) returned 1.
C2_Witness ==
    /\ Returned("meet") /\ a = NaN /\ b = Num(1) /\ ret = Num(1)

\* C3: partial_min and partial_max give no result exactly when the operands
\* are unordered; on an ordered pair partial_min gives the operand meet gives
\* and partial_max the operand join gives, which is self when they are equal.
C3_PartialMinMax ==
    /\ Returned("partial_min") =>
          /\ ret.some <=> Comparable(a, b)
          /\ ret.some => ret.val = Meet(a, b)
          /\ PartialCmp(a, b) = "Equal" => ret = Some(a)
    /\ Returned("partial_max") =>
          /\ ret.some <=> Comparable(a, b)
          /\ ret.some => ret.val = Join(a, b)
          /\ PartialCmp(a, b) = "Equal" => ret = Some(a)

\* partial_min of two equal, different values gave self.
C3_Witness ==
    /\ Returned("partial_min") /\ a = Num(0) /\ b = NegZero /\ ret = Some(Num(0))

\* C4: partial_ordered_pair gives no result exactly when the operands are
\* unordered; otherwise its pair is (a, b) or (b, a) and its first component
\* is <= its second, also when a = b and when a > b.
C4_PartialOrderedPair ==
    Returned("partial_ordered_pair") =>
        /\ ret.some <=> Comparable(a, b)
        /\ ret.some =>
              /\ ret.val \in {<<a, b>>, <<b, a>>}
              /\ Le(ret.val[1], ret.val[2])

\* A pair given in descending order came back swapped.
C4_Witness ==
    /\ Returned("partial_ordered_pair") /\ a = Num(2) /\ b = Num(1)
    /\ ret = Some(<<Num(1), Num(2)>>)

\* C5 as stated: partial_clamp(x, lo, hi) ends by returning: x when
\* lo <= x <= hi, lo when x < lo, hi when x > hi, and no result when a
\* pairing of the operands is unordered.
C5_PartialClampReturns ==
    Ended("partial_clamp") =>
        /\ status = "returned"
        /\ (IsNaN(a) \/ IsNaN(b) \/ IsNaN(c)) => ret = None
        /\ ~(IsNaN(a) \/ IsNaN(b) \/ IsNaN(c)) =>
              /\ Le(b, a) /\ Le(a, c) => ret = Some(a)
              /\ a.v < b.v => ret = Some(b)
              /\ a.v > c.v => ret = Some(c)

(***************************************************************************)
(* Composite adapter properties.                                           *)
(***************************************************************************)
\* C6: from_items for arity k in {2, 3} gives no result on a source of fewer
\* than k items; on a source of k or more items it gives the tuple of the
\* first k items in source order, whatever follows them; and it pulls at most
\* k items from the source.
C6_FromItems ==
    /\ Returned("from_items2") =>
          /\ Len(items) < 2 => ret = None
          /\ Len(items) >= 2 =>
                ret.some /\ ret.val.f0 = items[1] /\ ret.val.f1 = items[2]
          /\ aux.i.val <= 2
    /\ Returned("from_items3") =>
          /\ Len(items) < 3 => ret = None
          /\ Len(items) >= 3 =>
                /\ ret.some
                /\ ret.val.f0 = items[1] /\ ret.val.f1 = items[2]
                /\ ret.val.f2 = items[3]
          /\ aux.i.val <= 3

\* Five items recomposed to a pair of the first two, and two items refused
\* as a triple.
C6_Witness ==
    \/ /\ Returned("from_items2") /\ items = <<1, 2, 2, 1, 2>>
       /\ ret = Some(Tuple2(1, 2)) /\ aux.i = Some(2)
    \/ /\ Returned("from_items3") /\ Len(items) = 2 /\ ret = None

\* C7: into_items of a 2-tuple or 3-tuple is the sequence of its elements in
\* their order, as long as the arity, and from_items of that sequence is the
\* tuple again.
C7_RoundTrip ==
    /\ Returned("into_items2") =>
          /\ Len(ret) = 2
          /\ ret[1] = items.f0 /\ ret[2] = items.f1
          /\ FromItems2(ret).ret = Some(items)
    /\ Returned("into_items3") =>
          /\ Len(ret) = 3
          /\ ret[1] = items.f0 /\ ret[2] = items.f1 /\ ret[3] = items.f2
          /\ FromItems3(ret).ret = Some(items)

\* A pair of two different elements was decomposed.
C7_Witness ==
    /\ Returned("into_items2") /\ items = Tuple2(1, 2) /\ ret = <<1, 2>>

(***************************************************************************)
(* Plane fitting properties.                                               *)
(***************************************************************************)
PlaneCall == op \in {"svd_ev_plane", "from_points"}

Factored == aux.svd.some /\ aux.svd.val.ok /\ aux.svd.val.u.some

Sigma == aux.svd.val.sigma
U == aux.svd.val.u.val

Degenerate(col) ==
    \/ \E j \in 1..Len(col) : j <= Dim /\ IsNaN(col[j])
    \/ \A j \in 1..Len(col) : j <= Dim => col[j].v = 0

\* C8 as stated: in every failure case (empty input, factorization failure,
\* singular values that cannot be compared, selected index out of range,
\* degenerate candidate normal) the call ends by returning no result.
C8_FailuresReturnNone ==
    /\ PlaneCall /\ status # "ready"
    /\ \/ Len(points.cloned) = 0
       \/ aux.svd.some /\ ~aux.svd.val.ok
       \/ Factored /\ \E j, k \in 1..Len(Sigma) :
                          j # k /\ ~Comparable(Sigma[j], Sigma[k])
       \/ Factored /\ aux.i.some /\ aux.i.val >= Len(U)
       \/ aux.col.some /\ Degenerate(aux.col.val)
    => status = "returned" /\ ret = None

\* o is the arithmetic mean of the points ps: there is a point, and along
\* every axis the deviations of the points from o sum to nothing.
RECURSIVE DevSum(_, _, _)
DevSum(ps, o, j) ==
    IF ps = <<>> THEN 0
    ELSE (Head(ps)[j].v - o[j].v) + DevSum(Tail(ps), o, j)

IsMean(o, ps) == Len(ps) > 0 /\ \A j \in 1..Dim : DevSum(ps, o, j) = 0

\* The matrix holds, row by row, the coordinates of the points ps minus o.
RowsAre(m, ps, o) ==
    /\ m.some
    /\ Len(m.val.data) = Len(ps) * Dim
    /\ \A i \in 1..Len(ps) : \A j \in 1..Dim :
           m.val.data[Dim * (i - 1) + j] = Sub(ps[i][j], o[j])

RECURSIVE ColumnSum(_, _, _)
ColumnSum(data, j, n) ==
    IF n = 0 THEN 0 ELSE data[Dim * (n - 1) + j].v + ColumnSum(data, j, n - 1)

PlaneReturned == PlaneCall /\ status = "returned" /\ ret.some

TriangleFitted ==
    /\ Returned("from_points")
    /\ points = Vec(<<Point(Den, 0, 0), Point(Den \div 2, Den \div 2, 0),
                      Point(0, Den, 0)>>)
    /\ ret.some
    /\ ret.val.origin = Point(Den \div 2, Den \div 2, 0)
    /\ ret.val.normal.inner = Tuple3(Num(0), Num(0), Num(1))

\* C10: when the backend answers with a left factor U and mutually
\* comparable singular values, the index selected is that of a least
\* singular value, the first one if it is repeated; the candidate normal is
\* read from column i of U; and a plane is returned only if i is less than
\* the number of columns of U, with the first three entries of column i as
\* the direction of its normal.
C10_MinColumn ==
    /\ PlaneCall /\ status # "ready" /\ Factored
    /\ \A j, k \in 1..Len(Sigma) : Comparable(Sigma[j], Sigma[k])
    => /\ status = "returned"
       /\ Len(Sigma) = 0 => aux.i = None /\ ret = None
       /\ Len(Sigma) > 0 =>
             /\ aux.i.some
             /\ aux.i.val \in 0..(Len(Sigma) - 1)
             /\ \A j \in 1..Len(Sigma) : Le(Sigma[aux.i.val + 1], Sigma[j])
             /\ \A j \in 1..aux.i.val : Sigma[j].v > Sigma[aux.i.val + 1].v
       /\ aux.col.some => aux.i.val < Len(U) /\ aux.col.val = U[aux.i.val + 1]
       /\ ret.some =>
             /\ aux.i.val < Len(U)
             /\ aux.col.some
             /\ ret.val.normal.inner =
                    Tuple3(U[aux.i.val + 1][1], U[aux.i.val + 1][2], U[aux.i.val + 1][3])

\* A repeated least singular value: the first of the two was selected and a
\* plane returned from the first column.
C10_Witness ==
    /\ Returned("svd_ev_plane") /\ Factored
    /\ Sigma = <<Num(0), Num(0)>>
    /\ aux.i = Some(0)
    /\ Len(U) = 2 /\ U[1] # U[2]
    /\ ret.some

====
